---- MODULE Spec2Model ----
(***************************************************************************)
(* Model of pract_2/vkapi.py: the VkApiAgent client.  The error table      *)
(* (api_errors) is read at construction; every response of the session     *)
(* passes through the two response hooks (_handle_execute_errors, then     *)
(* _handle_api_errors) before _retry_wrapper reads its status.             *)
(*                                                                         *)
(* Times are counted in hundredths of a second (0.09 s is 9).              *)
(***************************************************************************)
EXTENDS Integers, Sequences, FiniteSets, TLC

\* ------------------------------------------------------------------ bounds
\* longest execute_errors list a response carries
MaxLen == 2
\* most Retry-classified responses answered within one call
MaxRetries == 3

\* ------------------------------------------------------- program constants
\* backoff_factor = 0.09 of execute, get_users_ids and get_friends
backoff_factor == 9

\* ------------------------------------------------------------ input domains
\* provider error codes that responses carry and that the table may map
Codes == {100, 200}
Actions == {"break", "retry", "skip"}
\* values a rule's MatchedHTTPError takes: two error statuses and one that
\* raise_for_status does not treat as an error
Statuses == {200, 404, 503}
\* statuses the transport itself answers with
TransportStatuses == {200, 503}
\* error_msg of the i-th entry of an execute_errors list
MsgNames == <<"msg1", "msg2", "msg3", "msg4">>
\* error_msg of the top-level "error" object
TopMsg == "top"
\* shapes of the "response" member of a body: missing; a list of user
\* objects with "id"; an object whose "items" is a list; a non-empty object
\* without "items"; the empty object {}; an object whose "items" is null
RespShapes == {"absent", "list", "items", "noitems", "emptyobj", "nullitems"}
Methods == {"execute", "users.get", "friends.get"}
\* exceptions of requests that s.get raises when no response arrives; neither
\* is a requests.exceptions.HTTPError
TransportErrors == {"ConnectionError", "Timeout"}

Rules == [action : Actions, MatchedHTTPError : Statuses]
\* api_errors as parse_config returns it: code -> rule, for some of the codes
Tables == UNION {[S -> Rules] : S \in SUBSET Codes}

NoError == [present |-> FALSE, error_code |-> 0, error_msg |-> ""]
NoExecuteErrors == [present |-> FALSE, val |-> <<>>]
\* a body that r.json() cannot parse (absent or malformed)
NoJson == [json |-> FALSE, execute_errors |-> NoExecuteErrors,
           error |-> NoError, response |-> "absent"]

ErrPairs(cs) == [i \in 1..Len(cs) |-> [error_code |-> cs[i], error_msg |-> MsgNames[i]]]
ExecuteErrorsVals ==
    {NoExecuteErrors} \cup
    {[present |-> TRUE, val |-> ErrPairs(cs)] :
        cs \in UNION {[1..n -> Codes] : n \in 0..MaxLen}}
ErrorVals ==
    {NoError} \cup
    {[present |-> TRUE, error_code |-> c, error_msg |-> TopMsg] : c \in Codes}
JsonBodies == [json : {TRUE}, execute_errors : ExecuteErrorsVals,
               error : ErrorVals, response : RespShapes]
Bodies == {NoJson} \cup JsonBodies

ReasonOf(status) == IF status = 200 THEN "OK" ELSE "Service Unavailable"
\* responses as the transport hands them to the hooks
Responses == {[status_code |-> st, reason |-> ReasonOf(st), body |-> b] :
                 st \in TransportStatuses, b \in Bodies}
\* what the remote side answers within a call: with status 200 a body that
\* has a "response" member or an "error" member but not both (the degenerate
\* objects {} and {"items": null} only in a body without execute_errors),
\* with an error status a body without embedded errors
Answers ==
    {a \in Responses :
        IF a.status_code = 200
        THEN /\ a.body.error.present => a.body.response = "absent"
             /\ a.body.execute_errors.present =>
                    a.body.response \notin {"emptyobj", "nullitems"}
        ELSE /\ ~a.body.error.present
             /\ ~a.body.execute_errors.present
             /\ a.body.response = "absent"}
\* r = None
NoResponse == [status_code |-> 0, reason |-> "", body |-> NoJson]

\* ------------------------------------------------------------------- state
VARIABLES
    api_errors,   \* self.api_errors
    pc,           \* where the client is
    method,       \* the domain method in progress
    retries,      \* retries of _retry_wrapper
    raw,          \* the response as s.get received it, before the hooks
                  \* (NoResponse when s.get received none)
    r,            \* r of _retry_wrapper (the hooks' result)
    exc,          \* the exception in flight or raised last ("none" if none)
    gets,         \* HTTP GETs issued by the call in progress
    sleeps,       \* arguments of time.sleep in the call in progress, in order
    ret,          \* what _retry_wrapper returned: "r", "None" or "pending"
    result,       \* what the domain method handed to its caller
    session,      \* state of self.session's connections
    retried_before \* an earlier call on this agent slept before a retry

vars == <<api_errors, pc, method, retries, raw, r, exc, gets, sleeps, ret, result, session,
          retried_before>>

\* ------------------------------------------------------------- the hooks
\* index of the first pair whose rule has action a (0 if none); tbl maps
\* every code of the list
RECURSIVE FirstWithFrom(_, _, _, _)
FirstWithFrom(tbl, err_pairs, a, i) ==
    IF i > Len(err_pairs) THEN 0
    ELSE IF tbl[err_pairs[i].error_code].action = a THEN i
    ELSE FirstWithFrom(tbl, err_pairs, a, i + 1)
FirstWith(tbl, err_pairs, a) == FirstWithFrom(tbl, err_pairs, a, 1)

\* Rewritten with the reason left as the transport set it
Rewritten_StatusOnly(tbl, resp, err_code, err_msg) ==
    [resp EXCEPT !.status_code = tbl[err_code].MatchedHTTPError]

\* r.status_code = self.api_errors[err_code]["MatchedHTTPError"]; r.reason = err_msg
Rewritten(tbl, resp, err_code, err_msg) ==
    [resp EXCEPT !.status_code = tbl[err_code].MatchedHTTPError,
                 !.reason = err_msg]

\* HandleExecuteErrors with a missing "execute_errors" member read as the
\* empty list (r.json().get("execute_errors", []))
HandleExecuteErrors_MissingAsEmpty(tbl, resp) ==
    LET err_pairs == resp.body.execute_errors.val
        n == Len(err_pairs)
        b == FirstWith(tbl, err_pairs, "break")
        left == err_pairs[n]
    IN  IF ~resp.body.json
        THEN [r |-> resp, exc |-> "JSONDecodeError"]
        ELSE IF \E i \in 1..n : err_pairs[i].error_code \notin DOMAIN tbl
        THEN [r |-> resp, exc |-> "none"]
        ELSE IF b > 0
        THEN [r |-> Rewritten(tbl, resp, err_pairs[b].error_code, err_pairs[b].error_msg),
              exc |-> "none"]
        ELSE IF n > 0 /\ tbl[left.error_code].action \in {"retry", "skip"}
        THEN [r |-> Rewritten(tbl, resp, left.error_code, left.error_msg),
              exc |-> "none"]
        ELSE [r |-> resp, exc |-> "AssertionError"]

\* HandleExecuteErrors without the final assert: a list that no loop matched
\* falls off the end and the response stays as it is
HandleExecuteErrors_NoAssert(tbl, resp) ==
    LET err_pairs == resp.body.execute_errors.val
        n == Len(err_pairs)
        b == FirstWith(tbl, err_pairs, "break")
        left == err_pairs[n]
    IN  IF ~resp.body.json
        THEN [r |-> resp, exc |-> "JSONDecodeError"]
        ELSE IF ~resp.body.execute_errors.present
        THEN [r |-> resp, exc |-> "none"]
        ELSE IF \E i \in 1..n : err_pairs[i].error_code \notin DOMAIN tbl
        THEN [r |-> resp, exc |-> "none"]
        ELSE IF b > 0
        THEN [r |-> Rewritten(tbl, resp, err_pairs[b].error_code, err_pairs[b].error_msg),
              exc |-> "none"]
        ELSE IF n > 0 /\ tbl[left.error_code].action \in {"retry", "skip"}
        THEN [r |-> Rewritten(tbl, resp, left.error_code, left.error_msg),
              exc |-> "none"]
        ELSE [r |-> resp, exc |-> "none"]

\* _handle_execute_errors: [r |-> the response, exc |-> what it raises].
\* The first loop binds err_code, err_msg; the second and the third bind
\* error_code, error_msg and still test err_code, err_msg, which the first
\* loop left at the last pair of the list.
HandleExecuteErrors(tbl, resp) ==
    LET err_pairs == resp.body.execute_errors.val
        n == Len(err_pairs)
        b == FirstWith(tbl, err_pairs, "break")
        left == err_pairs[n]
        SecondLoopHits == \E i \in 1..n : tbl[left.error_code].action = "retry"
        ThirdLoopHits == \E i \in 1..n : tbl[left.error_code].action = "skip"
    IN  IF ~resp.body.json
        THEN \* r.json() raises JSONDecodeError, which is no KeyError
             [r |-> resp, exc |-> "JSONDecodeError"]
        ELSE IF ~resp.body.execute_errors.present
        THEN \* KeyError, caught
             [r |-> resp, exc |-> "none"]
        ELSE IF \E i \in 1..n : err_pairs[i].error_code \notin DOMAIN tbl
        THEN \* KeyError while the actions are listed, caught
             [r |-> resp, exc |-> "none"]
        ELSE IF b > 0
        THEN [r |-> Rewritten(tbl, resp, err_pairs[b].error_code, err_pairs[b].error_msg),
              exc |-> "none"]
        ELSE IF SecondLoopHits \/ ThirdLoopHits
        THEN [r |-> Rewritten(tbl, resp, left.error_code, left.error_msg),
              exc |-> "none"]
        ELSE \* assert False, "Unexpected error"
             [r |-> resp, exc |-> "AssertionError"]

\* HandleApiErrors as a hook that leaves every response as it is
HandleApiErrors_Unregistered(tbl, resp) == resp

\* _handle_api_errors: its finally clause returns r whatever was raised
HandleApiErrors(tbl, resp) ==
    LET e == resp.body.error
    IN  IF ~resp.body.json THEN resp
        ELSE IF ~e.present THEN resp
        ELSE IF e.error_code \notin DOMAIN tbl THEN resp
        ELSE Rewritten(tbl, resp, e.error_code, e.error_msg)

\* the hooks of session.hooks["response"], in the order of their registration
RunHooks(tbl, resp) ==
    LET h == HandleExecuteErrors(tbl, resp)
    IN  IF h.exc # "none" THEN h
        ELSE [r |-> HandleApiErrors(tbl, h.r), exc |-> "none"]

\* ------------------------------------------------- the hooks on their own
\* a table and a response are drawn; the two hooks are applied in order
InitHooks ==
    /\ api_errors \in Tables
    /\ raw \in Responses
    /\ r = raw
    /\ pc = "hook_execute"
    /\ method = "none"
    /\ retries = 0
    /\ exc = "none"
    /\ gets = 0
    /\ sleeps = <<>>
    /\ ret = "pending"
    /\ result = "pending"
    /\ session = "open"
    /\ retried_before = FALSE

HookExecute ==
    /\ pc = "hook_execute"
    /\ LET h == HandleExecuteErrors(api_errors, r)
       IN  /\ r' = h.r
           /\ exc' = h.exc
           /\ pc' = IF h.exc = "none" THEN "hook_api" ELSE "hook_raised"
    /\ UNCHANGED <<api_errors, method, retries, raw, gets, sleeps, ret, result, session, retried_before>>

HookApi ==
    /\ pc = "hook_api"
    /\ r' = HandleApiErrors(api_errors, r)
    /\ pc' = "hooked"
    /\ UNCHANGED <<api_errors, method, retries, raw, exc, gets, sleeps, ret, result, session, retried_before>>

NextHooks == HookExecute \/ HookApi

SpecHooks == InitHooks /\ [][NextHooks]_vars

\* ------------------------------------------------------- the client's calls
\* IsHTTPError for the client errors only (4xx)
IsHTTPError_ClientOnly(status) == 400 <= status /\ status < 500

\* raise_for_status raises HTTPError
IsHTTPError(status) == 400 <= status /\ status < 600

StatusesOf(tbl, a) == {tbl[er].MatchedHTTPError : er \in {c \in DOMAIN tbl : tbl[c].action = a}}

\* Classify without the final raise SystemExit(err): the loop goes round again
Classify_NoFinalRaise(tbl, status) ==
    IF status \in StatusesOf(tbl, "skip") THEN "skip"
    ELSE IF status \in StatusesOf(tbl, "break") THEN "break"
    ELSE "retry"

\* Classify with the Skip test after the two others
Classify_SkipLast(tbl, status) ==
    IF status \in StatusesOf(tbl, "break") THEN "break"
    ELSE IF status \in StatusesOf(tbl, "retry") THEN "retry"
    ELSE IF status \in StatusesOf(tbl, "skip") THEN "skip"
    ELSE "exit"

\* Classify with the Retry test ahead of the Break test
Classify_RetryBeforeBreak(tbl, status) ==
    IF status \in StatusesOf(tbl, "skip") THEN "skip"
    ELSE IF status \in StatusesOf(tbl, "retry") THEN "retry"
    ELSE IF status \in StatusesOf(tbl, "break") THEN "break"
    ELSE "exit"

\* Classify with the Break test ahead of the Skip test
Classify_BreakBeforeSkip(tbl, status) ==
    IF status \in StatusesOf(tbl, "break") THEN "break"
    ELSE IF status \in StatusesOf(tbl, "skip") THEN "skip"
    ELSE IF status \in StatusesOf(tbl, "retry") THEN "retry"
    ELSE "exit"

\* the branch the except clause of _retry_wrapper takes for a status
Classify(tbl, status) ==
    IF status \in StatusesOf(tbl, "skip") THEN "skip"
    ELSE IF status \in StatusesOf(tbl, "break") THEN "break"
    ELSE IF status \in StatusesOf(tbl, "retry") THEN "retry"
    ELSE "exit"

RECURSIVE Pow2(_)
Pow2(k) == IF k = 0 THEN 1 ELSE 2 * Pow2(k - 1)

\* Wait with the product in place of the power (2 * retries)
Wait_Linear(factor, n) == factor * 2 * n

\* Wait computed from the count of retries before this one
Wait_BeforeIncrement(factor, n) == factor * Pow2(n - 1)

\* wait = backoff_factor * (2 ** (retries))
Wait(factor, n) == factor * Pow2(n)

\* what the attempt leads to: the hooks raise, the status is no error, or the
\* except clause takes one of its branches
Outcome(tbl, resp) ==
    LET h == RunHooks(tbl, resp)
    IN  IF h.exc # "none" THEN "hook_raised"
        ELSE IF ~IsHTTPError(h.r.status_code) THEN "success"
        ELSE Classify(tbl, h.r.status_code)

Init ==
    /\ api_errors \in Tables
    /\ pc = "idle"
    /\ method = "none"
    /\ retries = 0
    /\ raw = NoResponse
    /\ r = NoResponse
    /\ exc = "none"
    /\ gets = 0
    /\ sleeps = <<>>
    /\ ret = "pending"
    /\ result = "pending"
    /\ session = "open"
    /\ retried_before = FALSE

\* StartCall with retries kept from the call before (a counter of the agent)
StartCall_KeepRetries(m) ==
    /\ pc \in {"idle", "returned"}
    /\ pc' = "loop"
    /\ method' = m
    /\ raw' = NoResponse
    /\ r' = NoResponse
    /\ exc' = "none"
    /\ gets' = 0
    /\ sleeps' = <<>>
    /\ ret' = "pending"
    /\ result' = "pending"
    /\ retried_before' = (retried_before \/ sleeps # <<>>)
    /\ UNCHANGED <<api_errors, session, retries>>

\* a domain method up to the while loop of _retry_wrapper
StartCall(m) ==
    /\ pc \in {"idle", "returned"}
    /\ pc' = "loop"
    /\ method' = m
    /\ retries' = 0
    /\ raw' = NoResponse
    /\ r' = NoResponse
    /\ exc' = "none"
    /\ gets' = 0
    /\ sleeps' = <<>>
    /\ ret' = "pending"
    /\ result' = "pending"
    /\ retried_before' = (retried_before \/ sleeps # <<>>)
    /\ UNCHANGED <<api_errors, session>>

\* one pass of the while loop: s.get with its hooks, raise_for_status and
\* the except clause up to time.sleep
Attempt(resp) ==
    /\ pc = "loop"
    /\ \E h \in {RunHooks(api_errors, resp)}, o \in {Outcome(api_errors, resp)} :
           /\ o = "retry" => retries < MaxRetries
           /\ gets' = gets + 1
           /\ raw' = resp
           /\ r' = IF o = "hook_raised" THEN r ELSE h.r
           /\ retries' = IF o \in {"skip", "break", "retry", "exit"} THEN retries + 1 ELSE retries
           /\ pc' = CASE o = "success" -> "wrapped"
                      [] o = "skip" -> "wrapped"
                      [] o = "retry" -> "sleeping"
                      [] o = "hook_raised" -> "raised"
                      [] OTHER -> "terminated"
           /\ ret' = CASE o = "success" -> "r"
                       [] o = "skip" -> "None"
                       [] OTHER -> ret
           /\ exc' = CASE o = "hook_raised" -> h.exc
                       [] o = "break" -> "SystemExit"
                       [] o = "exit" -> "SystemExit(HTTPError)"
                       [] OTHER -> "none"
           /\ result' = IF o \in {"hook_raised", "break", "exit"} THEN "nothing" ELSE result
           /\ session' = IF o = "retry" THEN "open" ELSE "closed"
    /\ UNCHANGED <<api_errors, method, sleeps, retried_before>>

\* a pass of the while loop in which s.get raises for want of a response:
\* except HTTPError does not catch it, the exception leaves _retry_wrapper
\* through the with block (which closes the session) and the domain method
GetRaises(e) ==
    /\ pc = "loop"
    /\ gets' = gets + 1
    /\ raw' = NoResponse
    /\ pc' = "raised"
    /\ exc' = e
    /\ result' = "nothing"
    /\ session' = "closed"
    /\ UNCHANGED <<api_errors, method, retries, r, sleeps, ret, retried_before>>

\* Sleep under a cap on the attempts: after the second retry the call gives up
Sleep_Capped ==
    /\ pc = "sleeping"
    /\ IF retries >= 2
       THEN /\ pc' = "terminated"
            /\ exc' = "SystemExit"
            /\ result' = "nothing"
            /\ session' = "closed"
            /\ UNCHANGED sleeps
       ELSE /\ pc' = "loop"
            /\ sleeps' = Append(sleeps, Wait(backoff_factor, retries))
            /\ UNCHANGED <<exc, result, session>>
    /\ UNCHANGED <<api_errors, method, retries, raw, r, gets, ret, retried_before>>

\* Sleep that never comes back
Sleep_Forever ==
    /\ pc = "sleeping"
    /\ UNCHANGED vars

\* time.sleep(wait); continue
Sleep ==
    /\ pc = "sleeping"
    /\ sleeps' = Append(sleeps, Wait(backoff_factor, retries))
    /\ pc' = "loop"
    /\ UNCHANGED <<api_errors, method, retries, raw, r, exc, gets, ret, result, session, retried_before>>

\* what the domain method does with the value of _retry_wrapper:
\* [result |-> the value returned, exc |-> the exception raised]
DomainResult(m, rv, resp) ==
    LET shape == resp.body.response
    IN  IF rv = "None" THEN [result |-> "empty", exc |-> "none"]
        ELSE IF m = "execute"
        THEN IF shape = "absent" THEN [result |-> "nothing", exc |-> "KeyError"]
             ELSE [result |-> "value", exc |-> "none"]
        ELSE IF m = "users.get"
        \* the comprehension of line 107 iterates the response: the elements
        \* of a list, the keys of an object (user["id"] on a key, a string,
        \* is a TypeError), nothing at all for {}
        THEN CASE shape = "absent" -> [result |-> "nothing", exc |-> "SystemExit"]
               [] shape \in {"list", "emptyobj"} -> [result |-> "value", exc |-> "none"]
               [] OTHER -> [result |-> "nothing", exc |-> "TypeError"]
        \* ["items"] is a KeyError on an object without it and a TypeError on
        \* a list; len(friends) of line 129 is a TypeError on null
        ELSE CASE shape \in {"absent", "noitems", "emptyobj"} ->
                    [result |-> "nothing", exc |-> "SystemExit"]
               [] shape = "items" -> [result |-> "value", exc |-> "none"]
               [] OTHER -> [result |-> "nothing", exc |-> "TypeError"]

\* the rest of the domain method, after _retry_wrapper returned
Finish ==
    /\ pc = "wrapped"
    /\ LET d == DomainResult(method, ret, r)
       IN  /\ result' = d.result
           /\ exc' = d.exc
           /\ pc' = CASE d.exc = "none" -> "returned"
                      [] d.exc = "SystemExit" -> "terminated"
                      [] OTHER -> "raised"
    /\ UNCHANGED <<api_errors, method, retries, raw, r, gets, sleeps, ret, session, retried_before>>

Next ==
    \/ \E m \in Methods : StartCall(m)
    \/ \E resp \in Answers : Attempt(resp)
    \/ \E e \in TransportErrors : GetRaises(e)
    \/ Sleep
    \/ Finish

Spec == Init /\ [][Next]_vars

\* the calls under the scheduling of the code: it is sequential and blocking,
\* so a GET that was issued is answered or fails, a sleep ends and the domain
\* method goes on after _retry_wrapper; the caller need not call again
InCall ==
    \/ \E resp \in Answers : Attempt(resp)
    \/ \E e \in TransportErrors : GetRaises(e)
    \/ Sleep
    \/ Finish

\* the tables of at most one rule: api_errors as the constructor receives it
\* with no rule or a single one (each code, action and status in turn)
LiveTables == {tbl \in Tables : \E code \in Codes : DOMAIN tbl \subseteq {code}}

InitLive == Init /\ api_errors \in LiveTables

SpecLive == InitLive /\ [][Next]_vars /\ WF_vars(InCall)

\* ---------------------------------------------------------------- properties
\* the pair the tiered scan is documented to pick: the first Break, else the
\* first Retry, else the first Skip
TieredIndex(tbl, err_pairs) ==
    IF FirstWith(tbl, err_pairs, "break") > 0 THEN FirstWith(tbl, err_pairs, "break")
    ELSE IF FirstWith(tbl, err_pairs, "retry") > 0 THEN FirstWith(tbl, err_pairs, "retry")
    ELSE FirstWith(tbl, err_pairs, "skip")

AllMapped(tbl, err_pairs) ==
    \A i \in 1..Len(err_pairs) : err_pairs[i].error_code \in DOMAIN tbl

\* C1: after _handle_execute_errors on a non-empty execute_errors list whose
\* codes are all in the table, the status is the MatchedHTTPError of the first
\* Break of the list, else of its first Retry, else of its first Skip.
C1_TieredPriority ==
    (/\ pc = "hook_api"
     /\ raw.body.json
     /\ raw.body.execute_errors.present
     /\ Len(raw.body.execute_errors.val) > 0
     /\ AllMapped(api_errors, raw.body.execute_errors.val))
    => LET err_pairs == raw.body.execute_errors.val
           i == TieredIndex(api_errors, err_pairs)
       IN  r.status_code = api_errors[err_pairs[i].error_code].MatchedHTTPError

\* C7: on a body that is absent or no JSON neither hook raises, and status
\* code and reason are the same after both hooks as before.
C7_MalformedBodyTolerated ==
    ~raw.body.json =>
        /\ pc # "hook_raised"
        /\ r.status_code = raw.status_code
        /\ r.reason = raw.reason

NoErrorFields(resp) ==
    /\ resp.body.json
    /\ ~resp.body.execute_errors.present
    /\ ~resp.body.error.present

\* C8: on a JSON object with neither "execute_errors" nor "error" the two
\* hooks raise nothing and leave status code and reason as they were, for
\* every initial status and every table.
C8_NoErrorFieldsNoOp ==
    NoErrorFields(raw) =>
        /\ pc # "hook_raised"
        /\ exc = "none"
        /\ r.status_code = raw.status_code
        /\ r.reason = raw.reason

C8_Witness ==
    /\ pc = "hooked"
    /\ NoErrorFields(raw)
    /\ raw.status_code = 503
    /\ r = raw
    /\ \E c \in DOMAIN api_errors : api_errors[c].MatchedHTTPError = 503

\* --- properties of the calls
\* the last answer carries a top-level "error" whose code the table maps
TopMapped ==
    /\ gets >= 1
    /\ raw.body.json
    /\ raw.body.error.present
    /\ raw.body.error.error_code \in DOMAIN api_errors

TopRule == api_errors[raw.body.error.error_code]

\* _handle_execute_errors raises on the last answer
ExecuteHookRaises == HandleExecuteErrors(api_errors, raw).exc # "none"

\* the last answer ended the process by the Break branch: no value reached
\* the caller, no sleep and no GET followed it
BrokeOff ==
    /\ pc = "terminated"
    /\ exc = "SystemExit"
    /\ ret = "pending"
    /\ result = "nothing"
    /\ Len(sleeps) = gets - 1
    /\ gets = 1 => sleeps = <<>>

\* C2 as stated: for every table, an answer with an error code whose rule is
\* Break ends the process with SystemExit at that GET, without a sleep or a
\* further attempt, and hands the caller neither a response nor an empty result.
C2_BreakAlwaysTerminates ==
    (TopMapped /\ TopRule.action = "break") => BrokeOff

\* C2 as amended: the same, for a Break rule whose MatchedHTTPError is an
\* HTTP error status (400-599) that no Skip rule of the table shares, on an
\* answer on which _handle_execute_errors does not raise.
C2_BreakTerminates ==
    (/\ TopMapped
     /\ TopRule.action = "break"
     /\ TopRule.MatchedHTTPError >= 400
     /\ TopRule.MatchedHTTPError <= 599
     /\ \A c \in DOMAIN api_errors :
            api_errors[c].action = "skip"
                => api_errors[c].MatchedHTTPError # TopRule.MatchedHTTPError
     /\ ~ExecuteHookRaises)
    => BrokeOff

C2_Witness ==
    /\ TopMapped
    /\ TopRule.action = "break"
    /\ ~ExecuteHookRaises
    /\ \E c \in DOMAIN api_errors :
           /\ api_errors[c].action = "retry"
           /\ api_errors[c].MatchedHTTPError = TopRule.MatchedHTTPError
    /\ gets = 1
    /\ BrokeOff

\* the last answer was skipped: _retry_wrapper returned None without a sleep
\* or a further GET, and the domain method hands [] to its caller
Skipped ==
    /\ pc \in {"wrapped", "returned"}
    /\ ret = "None"
    /\ exc = "none"
    /\ pc = "returned" => result = "empty"
    /\ Len(sleeps) = gets - 1
    /\ gets = 1 => sleeps = <<>>

\* C3 as stated: for every table, a domain call whose answer carries an error
\* code whose rule is Skip returns [] after that GET, without a sleep, a
\* further attempt or the end of the process.
C3_SkipAlwaysReturnsEmpty ==
    (TopMapped /\ TopRule.action = "skip") => Skipped

\* C3 as amended: the same, for a Skip rule whose MatchedHTTPError is an HTTP
\* error status (400-599), on an answer on which _handle_execute_errors does
\* not raise.
C3_SkipReturnsEmpty ==
    (/\ TopMapped
     /\ TopRule.action = "skip"
     /\ TopRule.MatchedHTTPError >= 400
     /\ TopRule.MatchedHTTPError <= 599
     /\ ~ExecuteHookRaises)
    => Skipped

C3_Witness ==
    /\ TopMapped
    /\ TopRule.action = "skip"
    /\ \E c \in DOMAIN api_errors :
           /\ api_errors[c].action = "break"
           /\ api_errors[c].MatchedHTTPError = TopRule.MatchedHTTPError
    /\ method = "friends.get"
    /\ gets = 1
    /\ pc = "returned"
    /\ result = "empty"
    /\ sleeps = <<>>

Table100 == (100 :> [action |-> "retry", MatchedHTTPError |-> 503])

\* C4: with the table {100: retry -> 503} a call answered by three retried
\* responses and then a success has issued 4 GETs and slept 3 times, for 2b,
\* 4b and 8b (0.18 s, 0.36 s, 0.72 s), and returns the successful response;
\* in every call each sleep is twice the one before it and longer than it.
C4_BackoffSchedule ==
    /\ \A i \in 2..Len(sleeps) :
           /\ sleeps[i] = 2 * sleeps[i - 1]
           /\ sleeps[i] > sleeps[i - 1]
    /\ (api_errors = Table100 /\ ret = "r" /\ retries = 3)
       => /\ gets = 4
          /\ sleeps = <<2 * backoff_factor, 4 * backoff_factor, 8 * backoff_factor>>
          /\ sleeps = <<18, 36, 72>>
          /\ r = RunHooks(api_errors, raw).r
          /\ ~(r.status_code >= 400 /\ r.status_code <= 599)

C4_Witness ==
    /\ api_errors = Table100
    /\ ret = "r"
    /\ retries = 3
    /\ gets = 4
    /\ sleeps = <<18, 36, 72>>
    /\ method = "execute"
    /\ pc = "returned"
    /\ result = "value"

\* the call ended in a fault: an exception left it and nothing was returned
Faulted ==
    /\ pc \in {"terminated", "raised"}
    /\ ret = "pending"
    /\ result = "nothing"

\* C5: an answer whose top-level "error" has a code missing from the table
\* ends the call in a fault that stops the process; _retry_wrapper never
\* returns such a response as a success.
C5_UnmappedTopLevelIsFatal ==
    (/\ gets >= 1
     /\ raw.body.json
     /\ raw.body.error.present
     /\ raw.body.error.error_code \notin DOMAIN api_errors)
    => Faulted

\* C6: an answer whose execute_errors list holds a code missing from the
\* table ends the call in a fault; it is never handed on with status and
\* reason unchanged, nor reported to the caller as a success.
C6_UnmappedEmbeddedIsFatal ==
    (/\ gets >= 1
     /\ raw.body.json
     /\ raw.body.execute_errors.present
     /\ ~AllMapped(api_errors, raw.body.execute_errors.val))
    => Faulted

\* the field path the method reads is missing from the body
PathMissing(m, resp) ==
    IF m = "friends.get" THEN resp.body.response \in {"absent", "noitems", "emptyobj"}
    ELSE resp.body.response = "absent"

\* C9: when _retry_wrapper returned a response whose body lacks the field
\* path of the method ("response"; "response.items" for get_friends), the
\* method raises SystemExit and returns nothing, for each of the three methods.
C9_MissingPathIsShapeFault ==
    (/\ ret = "r"
     /\ pc # "wrapped"
     /\ PathMissing(method, r))
    => /\ pc = "terminated"
       /\ exc = "SystemExit"
       /\ result = "nothing"

\* what the loop did with the last answer
Applied ==
    CASE ret = "None" -> "skip"
      [] ret = "r" -> "success"
      [] pc \in {"sleeping", "loop"} -> "retry"
      [] exc = "SystemExit" -> "break"
      [] exc = "SystemExit(HTTPError)" -> "exit"
      [] OTHER -> "hook_raised"

\* _handle_api_errors left the response with the status of the rule of the
\* top-level error and with its message
TopRewritten ==
    /\ r.status_code = TopRule.MatchedHTTPError
    /\ r.reason = raw.body.error.error_msg
    /\ r.body = raw.body

\* C10 as stated: an answer with a top-level error of a mapped code c and
\* message m leaves _handle_api_errors with the MatchedHTTPError of c as
\* status and m as reason, and the loop applies the action configured for c.
C10_ConfiguredActionApplied ==
    TopMapped => (TopRewritten /\ Applied = TopRule.action)

\* C10 as amended: status and reason are as stated whenever
\* _handle_execute_errors does not raise; the loop then takes the response
\* for a success if that status is outside 400-599, and otherwise applies
\* Skip if a Skip rule has that status, else Break if a Break rule has it,
\* else Retry: the action configured for c unless a rule whose action is
\* tested earlier shares its status.
C10_ActionByStatus ==
    (TopMapped /\ ~ExecuteHookRaises) =>
        LET st == TopRule.MatchedHTTPError
            Has(a) == \E c \in DOMAIN api_errors :
                         /\ api_errors[c].action = a
                         /\ api_errors[c].MatchedHTTPError = st
        IN  /\ TopRewritten
            /\ Applied = (IF st < 400 \/ st > 599 THEN "success"
                          ELSE IF Has("skip") THEN "skip"
                          ELSE IF Has("break") THEN "break"
                          ELSE "retry")
            /\ (/\ st >= 400
                /\ st <= 599
                /\ \A c \in DOMAIN api_errors :
                       api_errors[c].MatchedHTTPError = st
                           => api_errors[c].action = TopRule.action)
               => Applied = TopRule.action

C10_Witness ==
    /\ TopMapped
    /\ ~ExecuteHookRaises
    /\ raw.body.execute_errors.present
    /\ raw.status_code = 200
    /\ TopRule.action = "retry"
    /\ TopRule.MatchedHTTPError = 503
    /\ r.status_code = 503
    /\ r.reason = TopMsg
    /\ pc = "sleeping"
    /\ \E c \in DOMAIN api_errors : api_errors[c].action = "skip"

\* C11 as stated: the delay is computed from the count of retries before it
\* is incremented, the count starting at 0 in each call: the first sleep of a
\* call is backoff_factor * 2^0 and the (k+1)-th is backoff_factor * 2^k.
C11_DelayBeforeIncrement ==
    \A i \in 1..Len(sleeps) : sleeps[i] = backoff_factor * Pow2(i - 1)

\* C11 as amended: the count starts at 0 in each call and is incremented
\* before the delay is computed: the first sleep of a call is
\* backoff_factor * 2^1 and the (k+1)-th is backoff_factor * 2^(k+1).
C11_DelayAfterIncrement ==
    /\ (pc = "loop" /\ gets = 0) => (retries = 0 /\ sleeps = <<>>)
    /\ pc = "sleeping" => Len(sleeps) = retries - 1
    /\ pc = "loop" => Len(sleeps) = retries
    /\ \A k \in 0..(Len(sleeps) - 1) : sleeps[k + 1] = backoff_factor * Pow2(k + 1)

C11_Witness ==
    /\ pc = "loop"
    /\ retries = 2
    /\ sleeps = <<2 * backoff_factor, 4 * backoff_factor>>

\* the hooks raise nothing on the last answer
HooksPassed == gets >= 1 /\ RunHooks(api_errors, raw).exc = "none"

\* some rule of the table has status st and action a
HasRule(a, st) ==
    \E c \in DOMAIN api_errors :
        /\ api_errors[c].action = a
        /\ api_errors[c].MatchedHTTPError = st

\* C12: when the status the hooks leave is an HTTP error status (400-599)
\* that is the MatchedHTTPError of no rule, _retry_wrapper ends the process
\* at once with SystemExit(err): no sleep, no further GET, nothing returned.
C12_UnmatchedStatusExits ==
    (/\ HooksPassed
     /\ r.status_code >= 400
     /\ r.status_code <= 599
     /\ \A a \in Actions : ~HasRule(a, r.status_code))
    => /\ pc = "terminated"
       /\ exc = "SystemExit(HTTPError)"
       /\ ret = "pending"
       /\ result = "nothing"
       /\ Len(sleeps) = gets - 1
       /\ retries = gets

C12_Witness ==
    /\ HooksPassed
    /\ raw.status_code = 503
    /\ r.status_code = 503
    /\ DOMAIN api_errors = Codes
    /\ \A a \in Actions : ~HasRule(a, 503)
    /\ gets = 2
    /\ Len(sleeps) = 1
    /\ pc = "terminated"
    /\ exc = "SystemExit(HTTPError)"

\* the loop classified the last answer as Retry: the hooks raised nothing and
\* left an error status that no Skip rule and no Break rule has and some
\* Retry rule has
RetryClassified ==
    /\ HooksPassed
    /\ r.status_code >= 400
    /\ r.status_code <= 599
    /\ ~HasRule("skip", r.status_code)
    /\ ~HasRule("break", r.status_code)
    /\ HasRule("retry", r.status_code)

\* the call is still in the loop after its n-th retried answer: it has
\* neither returned nor ended, and sleeps before the next GET
StillRetrying ==
    /\ pc \in {"sleeping", "loop"}
    /\ ret = "pending"
    /\ result = "pending"
    /\ exc = "none"
    /\ retries = gets
    /\ Len(sleeps) = (IF pc = "sleeping" THEN retries - 1 ELSE retries)

\* the call has left the loop of _retry_wrapper
LeftLoop == gets >= 1 /\ pc \notin {"loop", "sleeping"}

\* C13 as stated: no count of attempts ends a call: after any number of
\* retried answers the call has neither returned nor ended and goes on to
\* sleep and GET again; it leaves the loop only on a success, a Skip, a Break
\* or an unclassified status.
C13_LeavesOnlyByStatus ==
    /\ RetryClassified => StillRetrying
    /\ LeftLoop =>
          \/ ret \in {"r", "None"}
          \/ exc \in {"SystemExit", "SystemExit(HTTPError)"}

\* C13 as amended: the same, the call leaving the loop also on an exception
\* that s.get raises and except HTTPError does not catch: that of a hook (the
\* AssertionError of _handle_execute_errors, or JSONDecodeError on a body that
\* is no JSON), or a transport error (ConnectionError, Timeout) when no
\* response arrives.
C13_NoAttemptCap ==
    /\ RetryClassified => StillRetrying
    /\ LeftLoop => ~RetryClassified
    /\ LeftLoop =>
          \/ ret \in {"r", "None"}
          \/ exc \in {"SystemExit", "SystemExit(HTTPError)"}
          \/ /\ pc = "raised"
             /\ raw # NoResponse
             /\ ~HooksPassed
             /\ exc \in {"AssertionError", "JSONDecodeError"}
          \/ /\ pc = "raised"
             /\ raw = NoResponse
             /\ exc \in TransportErrors

C13_Witness ==
    /\ RetryClassified
    /\ pc = "sleeping"
    /\ retries = MaxRetries
    /\ gets = MaxRetries
    /\ Len(sleeps) = MaxRetries - 1

\* the body handed to the hooks has a non-empty execute_errors list of mapped
\* codes and a top-level "error" of a mapped code
BothMapped ==
    /\ raw.body.json
    /\ raw.body.execute_errors.present
    /\ Len(raw.body.execute_errors.val) > 0
    /\ AllMapped(api_errors, raw.body.execute_errors.val)
    /\ raw.body.error.present
    /\ raw.body.error.error_code \in DOMAIN api_errors

\* C14: the hooks run in the order _handle_execute_errors, then
\* _handle_api_errors; on a body with both a mapped execute_errors list and a
\* mapped top-level "error" the first leaves the status and the message of an
\* entry of the list, and the status and the reason left at the end are those
\* of the top-level error.
C14_TopLevelWrittenLast ==
    BothMapped =>
        /\ pc # "hook_raised"
        /\ pc = "hook_execute" => r = raw
        /\ pc = "hook_api" =>
              \E i \in 1..Len(raw.body.execute_errors.val) :
                  LET e == raw.body.execute_errors.val[i]
                  IN  /\ r.status_code = api_errors[e.error_code].MatchedHTTPError
                      /\ r.reason = e.error_msg
        /\ pc = "hooked" =>
              /\ r.status_code = TopRule.MatchedHTTPError
              /\ r.reason = raw.body.error.error_msg

C14_Witness ==
    /\ BothMapped
    /\ pc = "hooked"
    /\ raw.body.execute_errors.val[1].error_code # raw.body.error.error_code
    /\ api_errors[raw.body.execute_errors.val[1].error_code].MatchedHTTPError
           # TopRule.MatchedHTTPError
    /\ r.status_code = TopRule.MatchedHTTPError
    /\ r.reason = TopMsg

\* C15: the loop classifies by the status the hooks leave, testing Skip, then
\* Break, then Retry: for an error status that rules of the table have, the
\* call is skipped if a Skip rule has it, else the process ends if a Break
\* rule has it, else the call is retried, whatever code the answer carried.
C15_SkipBreakRetryOrder ==
    (/\ HooksPassed
     /\ r.status_code >= 400
     /\ r.status_code <= 599
     /\ \E a \in Actions : HasRule(a, r.status_code))
    => /\ HasRule("skip", r.status_code) => Applied = "skip"
       /\ (~HasRule("skip", r.status_code) /\ HasRule("break", r.status_code))
              => Applied = "break"
       /\ (/\ ~HasRule("skip", r.status_code)
           /\ ~HasRule("break", r.status_code)) => Applied = "retry"

C15_Witness ==
    /\ TopMapped
    /\ HooksPassed
    /\ TopRule.action = "retry"
    /\ r.status_code = 503
    /\ HasRule("skip", 503)
    /\ Applied = "skip"
    /\ pc = "returned"
    /\ result = "empty"

\* the sleeps of the call in progress, as the count of its retried answers
\* and the backoff factor give them
SleepsOfThisCall ==
    LET n == IF pc = "sleeping" THEN retries - 1
             ELSE IF pc \in {"loop", "idle"} THEN retries
             ELSE Len(sleeps)
    IN  /\ Len(sleeps) = n
        /\ n <= retries
        /\ sleeps = [i \in 1..n |-> backoff_factor * Pow2(i)]

\* C16: the retry state belongs to one call: whatever calls were made on the
\* agent before, a call starts with no retries and its sleeps are those its
\* own count of retried answers and the backoff factor give; no step of a
\* call changes the error table.
C16_RetryStateCallLocal ==
    [][/\ api_errors' = api_errors
       /\ SleepsOfThisCall'
       /\ (pc \in {"idle", "returned"} /\ pc' = "loop")
              => (retries' = 0 /\ sleeps' = <<>> /\ gets' = 0)]_vars

C16_Witness ==
    /\ retried_before
    /\ pc = "returned"
    /\ ret = "r"
    /\ retries = 1
    /\ sleeps = <<2 * backoff_factor>>

\* C17: the session is acquired at construction and released only at
\* teardown: it is not closed when a call returns a response or a Skip, nor
\* between two calls.
C17_SessionKeptOpen ==
    /\ pc \in {"wrapped", "returned"} => session = "open"
    /\ (pc = "loop" /\ gets = 0) => session = "open"

\* the last answer has an execute_errors list, of mapped codes, in which no
\* entry has one of the three actions
NoActionMatches ==
    /\ gets >= 1
    /\ raw.body.json
    /\ raw.body.execute_errors.present
    /\ AllMapped(api_errors, raw.body.execute_errors.val)
    /\ \A i \in 1..Len(raw.body.execute_errors.val) :
           api_errors[raw.body.execute_errors.val[i].error_code].action
               \notin {"break", "retry", "skip"}

\* C18: on an execute_errors list in which no error matches any of the three
\* actions, the empty list among them, _handle_execute_errors raises the
\* AssertionError instead of returning the response; _retry_wrapper does not
\* catch it, so the call neither returns nor retries.
C18_NoMatchAsserts ==
    NoActionMatches =>
        /\ HandleExecuteErrors(api_errors, raw).exc = "AssertionError"
        /\ pc = "raised"
        /\ exc = "AssertionError"
        /\ ret = "pending"
        /\ result = "nothing"
        /\ Len(sleeps) = gets - 1
        /\ retries = gets - 1

C18_Witness ==
    /\ NoActionMatches
    /\ raw.body.execute_errors.val = <<>>
    /\ DOMAIN api_errors = Codes
    /\ gets = 2
    /\ pc = "raised"
    /\ exc = "AssertionError"

\* C19: when _retry_wrapper returns a response, it is the response of the
\* last attempt as the two hooks left it, and its status is no error status
\* (not in 400-599); a response with an error status is never returned.
C19_ReturnedResponseIsSuccess ==
    ret = "r" =>
        /\ gets >= 1
        /\ gets = retries + 1
        /\ RunHooks(api_errors, raw).exc = "none"
        /\ r = RunHooks(api_errors, raw).r
        /\ ~(r.status_code >= 400 /\ r.status_code <= 599)

C19_Witness ==
    /\ ret = "r"
    /\ pc = "wrapped"
    /\ gets = 2
    /\ raw.body.error.present
    /\ raw.body.error.error_code \in DOMAIN api_errors
    /\ r.status_code = 200
    /\ r.reason = TopMsg

\* _retry_wrapper has ended: it returned or an exception left it
WrapperEnded == pc \in {"wrapped", "returned", "terminated", "raised"}

\* the number of the ways in which _retry_wrapper ended
WaysEnded ==
    (IF ret = "r" THEN 1 ELSE 0)
    + (IF ret = "None" THEN 1 ELSE 0)
    + (IF ret = "pending" /\ pc \in {"terminated", "raised"} /\ exc # "none" THEN 1 ELSE 0)

\* C20: the remote side answering with something else after finitely many
\* retried answers, every call of _retry_wrapper ends, in exactly one way: it
\* returns the response, it returns None, or an exception ends the process;
\* the caller has control again only when no retry of the call is left.
C20_EveryCallEnds ==
    /\ [](pc \in {"loop", "sleeping"} => <>WrapperEnded)
    /\ [](WrapperEnded => WaysEnded = 1)
    /\ [](pc \in {"loop", "sleeping"} => (ret = "pending" /\ result = "pending"))
    /\ [](pc = "returned" => (ret \in {"r", "None"} /\ Len(sleeps) = gets - 1))

C20_Witness ==
    /\ pc = "returned"
    /\ ret = "r"
    /\ retries = MaxRetries
    /\ Len(sleeps) = MaxRetries
    /\ gets = MaxRetries + 1

====
